---- MODULE Spec2Model ----
(***************************************************************************)
(* Upload session coordinator (backend/services/upload_service.py and the *)
(* request handlers of backend/main.py) and cleanup sweeper               *)
(* (backend/services/cleanup_service.py) as one state machine.            *)
(*                                                                         *)
(* Time is counted in hours.  utcNow is the UTC clock; the process's      *)
(* local wall clock (datetime.now()) is utcNow + tz.  Sizes are counted   *)
(* in units of 5 000 000 bytes, so the 25 000 000 / 10 000 000 example is *)
(* file_size 5, chunk_size 2.                                             *)
(*                                                                         *)
(* A request handler runs from its first line to its response in one      *)
(* step: the redis and boto3 clients are synchronous, so a handler never  *)
(* yields to the event loop.  A cleanup pass is one step for the same     *)
(* reason; the scheduler task yields only in asyncio.sleep.  Only worker   *)
(* processes of the same application run truly concurrently: RaceSpec      *)
(* takes the redis GET and the redis SETEX of two of them as steps.        *)
(*                                                                         *)
(* The blob store answers each call or fails it (the ok / listed /        *)
(* failing inputs of the actions).  The session store answers the request *)
(* handlers; the sweeper's ping tells whether it answers the sweeper.     *)
(*                                                                         *)
(* created_at, expires_at, completed_at and UploadedAt are naive local    *)
(* times (datetime.now()); the Initiated time of a multipart upload and   *)
(* the expiry of a redis key are UTC.                                     *)
(***************************************************************************)
EXTENDS Integers, Sequences, FiniteSets, TLC

VARIABLES
    redis,      \* session store: key "upload_session:<id>" -> value, or NoKey
    s3,         \* blob store: upload id -> multipart upload
    utcNow,     \* UTC clock, hours
    tz,         \* offset of the local wall clock from UTC, hours
    pc,         \* position of the cleanup scheduler task
    resp,       \* the last request's response, with what the handler did
    swept,      \* what the last cleanup pass did
    inflight    \* per worker process: its part-complete request between the
                \* read of the record and the write

vars == <<redis, s3, utcNow, tz, pc, resp, swept, inflight>>

-----------------------------------------------------------------------------
(* Bounds of the model *)

MaxPart == 3            \* part numbers a part-complete request may carry: 1..MaxPart
MaxUploads == 3         \* upload ids the blob store can hand out
MaxNow == 12            \* the clock stops at this hour
MaxSize == 3            \* part sizes a request may carry: 1..MaxSize

(* Program constants, in hours *)

SessionTTL == 168       \* timedelta(days=7)
HardCeiling == 168      \* 7 * 24
GraceWindow == 48       \* 48
OrphanCutoff == 168     \* timedelta(days=7)
SweepInterval == 6      \* 6 * 60 * 60 seconds

Sessions == {"s1", "s2"}
Workers == {"w1", "w2"}
UploadIds == 1..MaxUploads
ETags == {"a", "b"}
TzOffsets == {0, 2}

UploadStatus == {"pending", "uploading", "paused", "completed", "failed", "cancelled"}

NoKey == [kind |-> "nil"]               \* redis GET of a missing key
None == [kind |-> "None"]               \* Python None
NoTime == 0 - 100000                    \* an Optional[datetime] that is None

-----------------------------------------------------------------------------
(* Pure helpers *)

\* math.ceil(file_size / chunk_size)
Ceil(a, b) == (a + b - 1) \div b

total_parts(session) == Ceil(session.file_size, session.chunk_size)

PartNumbers(parts) == {parts[i].PartNumber : i \in 1..Len(parts)}

RECURSIVE InsertPart(_, _)
InsertPart(sorted, p) ==
    IF sorted = <<>> THEN <<p>>
    ELSE IF p.PartNumber < Head(sorted).PartNumber THEN <<p>> \o sorted
    ELSE <<Head(sorted)>> \o InsertPart(Tail(sorted), p)

\* sorted(parts, key=lambda x: x['PartNumber']): stable, ascending
RECURSIVE sorted_parts(_)
sorted_parts(parts) ==
    IF parts = <<>> THEN <<>>
    ELSE InsertPart(sorted_parts(SubSeq(parts, 1, Len(parts) - 1)), parts[Len(parts)])

StrictlyAscending(parts) ==
    \A i \in 1..(Len(parts) - 1) : parts[i].PartNumber < parts[i + 1].PartNumber

RECURSIVE SumSizes(_)
SumSizes(parts) ==
    IF parts = <<>> THEN 0 ELSE Head(parts).Size + SumSizes(Tail(parts))

LocalNow == utcNow + tz

-----------------------------------------------------------------------------
(* The blob store, as the code calls it.  ok is the backend's own answer  *)
(* (reachable, parts and etags known to it); the rest is the protocol.    *)

\* s3_client.create_multipart_upload: a new upload id, initiated now
s3_create_multipart_upload(s, u, ok) ==
    IF ok
    THEN [ok |-> TRUE, s3 |-> [s EXCEPT ![u] = [state |-> "open", initiated |-> utcNow]]]
    ELSE [ok |-> FALSE, s3 |-> s]

\* s3_client.complete_multipart_upload: the upload must exist and be open, the
\* part list non-empty and in strictly ascending part-number order
s3_complete_multipart_upload(s, u, parts, ok) ==
    IF ok /\ s[u].state = "open" /\ parts # <<>> /\ StrictlyAscending(parts)
    THEN [ok |-> TRUE, s3 |-> [s EXCEPT ![u].state = "completed"]]
    ELSE [ok |-> FALSE, s3 |-> s]

\* s3_client.abort_multipart_upload: NoSuchUpload unless the upload is open
s3_abort_multipart_upload(s, u, ok) ==
    IF ok /\ s[u].state = "open"
    THEN [ok |-> TRUE, s3 |-> [s EXCEPT ![u].state = "aborted"]]
    ELSE [ok |-> FALSE, s3 |-> s]

\* s3_client.list_multipart_uploads(...)["Uploads"]: the uploads in progress
s3_list_multipart_uploads(s) == {u \in UploadIds : s[u].state = "open"}

-----------------------------------------------------------------------------
(* UploadService *)

\* What a service method did: exc is "" when it returned, else the exception
\* it raised; obj is the session object it handed to _store_session, s3call
\* the blob-store operation it invoked and s3ok whether that call returned.
Out(exc, r, s, obj, call, ok) ==
    [exc |-> exc, redis |-> r, s3 |-> s, obj |-> obj, s3call |-> call, s3ok |-> ok]

\* Variant: session.model_dump(), the record as a dict
model_dump(session) == [type |-> "dict", value |-> session]

\* session.model_dump_json(): the record serialised to one JSON string
model_dump_json(session) == [type |-> "str", value |-> session]

\* UploadService._store_session.  session_data is a str, so session_data.items()
\* raises AttributeError before setex is reached; the handler prints and re-raises.
store_session(r, session) ==
    LET session_data == model_dump_json(session) IN
    IF session_data.type # "dict"
    THEN [raised |-> TRUE, redis |-> r]
    ELSE [raised |-> FALSE,
          redis |-> [r EXCEPT ![session.id] =
                        [kind |-> "json", doc |-> session_data.value,
                         exp |-> utcNow + SessionTTL]]]

\* UploadService.get_session: None for a missing key, json.loads otherwise
get_session(sid) ==
    IF redis[sid] = NoKey THEN [exc |-> "", value |-> None]
    ELSE IF redis[sid].kind # "json" THEN [exc |-> "JSONDecodeError", value |-> None]
    ELSE [exc |-> "", value |-> redis[sid].doc]

\* UploadService.create_session
create_session(sid, u, geometry, s3ok) ==
    LET response == s3_create_multipart_upload(s3, u, s3ok) IN
    IF ~response.ok THEN Out("S3Error", redis, s3, None, "create", FALSE)
    ELSE LET session == [id |-> sid, upload_id |-> u,
                         file_size |-> geometry.file_size,
                         chunk_size |-> geometry.chunk_size,
                         status |-> "pending", uploaded_parts |-> <<>>,
                         created_at |-> LocalNow, completed_at |-> NoTime,
                         expires_at |-> LocalNow + SessionTTL]
             st == store_session(redis, session)
         IN  Out(IF st.raised THEN "AttributeError" ELSE "",
                 st.redis, response.s3, session, "create", TRUE)

\* UploadService.mark_part_complete
mark_part_complete(sid, part) ==
    LET got == get_session(sid) IN
    IF got.exc # "" THEN Out(got.exc, redis, s3, None, "none", TRUE)
    ELSE IF got.value = None THEN Out("Session not found", redis, s3, None, "none", TRUE)
    ELSE LET part_data == [PartNumber |-> part.part_number, ETag |-> part.etag,
                           Size |-> part.size, UploadedAt |-> LocalNow]
             session == [got.value EXCEPT !.uploaded_parts = Append(@, part_data)]
             st == store_session(redis, session)
         IN  Out(IF st.raised THEN "AttributeError" ELSE "",
                 st.redis, s3, session, "none", TRUE)

\* Variant: complete_upload that marks the session without the blob store
complete_upload_unfinalized(sid, parts, s3ok) ==
    LET got == get_session(sid) IN
    IF got.exc # "" THEN Out(got.exc, redis, s3, None, "none", TRUE)
    ELSE IF got.value = None THEN Out("Session not found", redis, s3, None, "none", TRUE)
    ELSE LET session == [got.value EXCEPT !.status = "completed",
                                          !.completed_at = LocalNow]
             st == store_session(redis, session)
         IN  Out(IF st.raised THEN "AttributeError" ELSE "",
                 st.redis, s3, session, "none", TRUE)

\* Variant: complete_upload that catches the blob store's failure and goes on
complete_upload_swallowing(sid, parts, s3ok) ==
    LET got == get_session(sid) IN
    IF got.exc # "" THEN Out(got.exc, redis, s3, None, "none", TRUE)
    ELSE IF got.value = None THEN Out("Session not found", redis, s3, None, "none", TRUE)
    ELSE LET response == s3_complete_multipart_upload(
                             s3, got.value.upload_id, sorted_parts(parts), s3ok)
             session == [got.value EXCEPT !.status = "completed",
                                          !.completed_at = LocalNow]
             st == store_session(redis, session)
         IN  Out(IF st.raised THEN "AttributeError" ELSE "",
                 st.redis, response.s3, session, "complete", response.ok)

\* UploadService.complete_upload
complete_upload(sid, parts, s3ok) ==
    LET got == get_session(sid) IN
    IF got.exc # "" THEN Out(got.exc, redis, s3, None, "none", TRUE)
    ELSE IF got.value = None THEN Out("Session not found", redis, s3, None, "none", TRUE)
    ELSE LET response == s3_complete_multipart_upload(
                             s3, got.value.upload_id, sorted_parts(parts), s3ok)
         IN  IF ~response.ok THEN Out("S3Error", redis, s3, None, "complete", FALSE)
             ELSE LET session == [got.value EXCEPT !.status = "completed",
                                                   !.completed_at = LocalNow]
                      st == store_session(redis, session)
                  IN  Out(IF st.raised THEN "AttributeError" ELSE "",
                          st.redis, response.s3, session, "complete", TRUE)

\* UploadService.abort_upload
abort_upload(sid, s3ok) ==
    LET got == get_session(sid) IN
    IF got.exc # "" THEN Out(got.exc, redis, s3, None, "none", TRUE)
    ELSE IF got.value = None THEN Out("Session not found", redis, s3, None, "none", TRUE)
    ELSE LET response == s3_abort_multipart_upload(s3, got.value.upload_id, s3ok)
         IN  IF ~response.ok THEN Out("S3Error", redis, s3, None, "abort", FALSE)
             ELSE LET session == [got.value EXCEPT !.status = "cancelled"]
                      st == store_session(redis, session)
                  IN  Out(IF st.raised THEN "AttributeError" ELSE "",
                          st.redis, response.s3, session, "abort", TRUE)

\* UploadService.pause_upload
pause_upload(sid) ==
    LET got == get_session(sid) IN
    IF got.exc # "" THEN Out(got.exc, redis, s3, None, "none", TRUE)
    ELSE IF got.value = None THEN Out("Session not found", redis, s3, None, "none", TRUE)
    ELSE LET session == [got.value EXCEPT !.status = "paused"]
             st == store_session(redis, session)
         IN  Out(IF st.raised THEN "AttributeError" ELSE "",
                 st.redis, s3, session, "none", TRUE)

\* UploadService.resume_upload
resume_upload(sid) ==
    LET got == get_session(sid) IN
    IF got.exc # "" THEN Out(got.exc, redis, s3, None, "none", TRUE)
    ELSE IF got.value = None THEN Out("Session not found", redis, s3, None, "none", TRUE)
    ELSE IF got.value.status # "paused"
    THEN Out("Session is not paused", redis, s3, None, "none", TRUE)
    ELSE LET session == [got.value EXCEPT !.status = "uploading"]
             st == store_session(redis, session)
         IN  Out(IF st.raised THEN "AttributeError" ELSE "",
                 st.redis, s3, session, "none", TRUE)

\* main.resume_upload: the endpoint checks the session itself before it calls
\* the service; its HTTPExceptions pass through, anything else becomes a 400
resume_endpoint(sid) ==
    LET got == get_session(sid) IN
    IF got.exc # "" THEN [code |-> 400, out |-> Out(got.exc, redis, s3, None, "none", TRUE)]
    ELSE IF got.value = None
    THEN [code |-> 404, out |-> Out("Session not found", redis, s3, None, "none", TRUE)]
    ELSE IF got.value.status # "paused"
    THEN [code |-> 400, out |-> Out("Cannot resume session", redis, s3, None, "none", TRUE)]
    ELSE LET out == resume_upload(sid) IN
         [code |-> IF out.exc = "" THEN 200 ELSE 400, out |-> out]

-----------------------------------------------------------------------------
(* Request handlers of main.py: one action per endpoint.  Every exception *)
(* of the service becomes HTTP 400 with the exception text as detail.     *)

Geometries == {[file_size |-> 5, chunk_size |-> 2]}

PartUploads == [part_number : 1..MaxPart, etag : ETags, size : 1..MaxSize]

\* A request's part list: dicts with PartNumber and ETag
MkParts(nums) == [i \in 1..Len(nums) |-> [PartNumber |-> nums[i], ETag |-> "a"]]

PartLists ==
    {MkParts(nums) : nums \in {<<>>, <<1, 2>>, <<1, 2, 3>>, <<3, 1, 2>>,
                               <<1, 2, 2>>, <<1, 2, MaxPart + 1>>}}

\* The upload a stored value points at (0: none)
UploadOf(value) ==
    IF value # NoKey /\ value.kind = "json" THEN value.doc.upload_id ELSE 0

RemoteState(s, u) == IF u \in UploadIds THEN s[u].state ELSE "none"

\* The response, with the handler's view of the record and of the remote
\* upload before and after the request
Respond(op, sid, arg, code, out) ==
    [op |-> op, sid |-> sid, arg |-> arg, code |-> code, detail |-> out.exc,
     obj |-> out.obj, s3call |-> out.s3call, s3ok |-> out.s3ok,
     before |-> redis[sid], after |-> out.redis[sid],
     remote |-> [before |-> RemoteState(s3, UploadOf(redis[sid])),
                 after |-> RemoteState(out.s3, UploadOf(redis[sid]))]]

HttpCode(out) == IF out.exc = "" THEN 200 ELSE 400

FreshUpload(u) ==
    /\ s3[u].state = "none"
    /\ \A v \in UploadIds : v < u => s3[v].state # "none"

\* POST /upload/initiate
CreateSession ==
    \E sid \in Sessions, u \in UploadIds, g \in Geometries, s3ok \in BOOLEAN :
        /\ redis[sid] = NoKey
        /\ FreshUpload(u)
        /\ LET out == create_session(sid, u, g, s3ok) IN
            /\ redis' = out.redis
            /\ s3' = out.s3
            /\ resp' = Respond("create", sid, g, HttpCode(out), out)
        /\ UNCHANGED <<utcNow, tz, pc, swept, inflight>>

\* POST /upload/part-complete
RecordPartComplete ==
    \E sid \in Sessions, part \in PartUploads :
        /\ LET out == mark_part_complete(sid, part) IN
            /\ redis' = out.redis
            /\ s3' = out.s3
            /\ resp' = Respond("part-complete", sid, part, HttpCode(out), out)
        /\ UNCHANGED <<utcNow, tz, pc, swept, inflight>>

\* POST /upload/complete
CompleteUpload ==
    \E sid \in Sessions, parts \in PartLists, s3ok \in BOOLEAN :
        /\ LET out == complete_upload(sid, parts, s3ok) IN
            /\ redis' = out.redis
            /\ s3' = out.s3
            /\ resp' = Respond("complete", sid, parts, HttpCode(out), out)
        /\ UNCHANGED <<utcNow, tz, pc, swept, inflight>>

\* POST /upload/abort
AbortUpload ==
    \E sid \in Sessions, s3ok \in BOOLEAN :
        /\ LET out == abort_upload(sid, s3ok) IN
            /\ redis' = out.redis
            /\ s3' = out.s3
            /\ resp' = Respond("abort", sid, None, HttpCode(out), out)
        /\ UNCHANGED <<utcNow, tz, pc, swept, inflight>>

\* POST /upload/pause
PauseUpload ==
    \E sid \in Sessions :
        /\ LET out == pause_upload(sid) IN
            /\ redis' = out.redis
            /\ s3' = out.s3
            /\ resp' = Respond("pause", sid, None, HttpCode(out), out)
        /\ UNCHANGED <<utcNow, tz, pc, swept, inflight>>

\* POST /upload/resume
ResumeUpload ==
    \E sid \in Sessions :
        /\ LET r == resume_endpoint(sid) IN
            /\ redis' = r.out.redis
            /\ s3' = r.out.s3
            /\ resp' = Respond("resume", sid, None, r.code, r.out)
        /\ UNCHANGED <<utcNow, tz, pc, swept, inflight>>

-----------------------------------------------------------------------------
(* Endpoints that only read *)

\* What a reading endpoint answered, with the stores it answered from
Reply(op, sid, arg, code, body) ==
    [op |-> op, sid |-> sid, arg |-> arg, code |-> code, body |-> body,
     before |-> redis, remote |-> s3]

\* [p for p in range(1, total_parts + 1) if p not in uploaded_parts]
missing_parts(session) ==
    LET uploaded_parts == PartNumbers(session.uploaded_parts) IN
    SelectSeq([p \in 1..total_parts(session) |-> p],
              LAMBDA p : p \notin uploaded_parts)

\* Variant: validate_session that consults the blob store before the expiry
validate_session_s3_first(sid, listed) ==
    LET got == get_session(sid) IN
    IF got.exc # "" THEN [valid |-> FALSE, reason |-> got.exc, can_recover |-> TRUE]
    ELSE IF got.value = None
    THEN [valid |-> FALSE, reason |-> "Session not found", can_recover |-> FALSE]
    ELSE LET session == got.value IN
         IF ~listed
         THEN [valid |-> FALSE, reason |-> "S3 validation failed", can_recover |-> TRUE]
         ELSE IF session.upload_id \notin s3_list_multipart_uploads(s3)
         THEN [valid |-> FALSE, reason |-> "S3 upload no longer exists",
               can_recover |-> FALSE]
         ELSE IF session.expires_at < LocalNow
         THEN [valid |-> FALSE, reason |-> "Session expired", can_recover |-> FALSE]
         ELSE [valid |-> TRUE, status |-> session.status,
               missing_parts |-> missing_parts(session),
               uploaded_bytes |-> SumSizes(session.uploaded_parts),
               total_bytes |-> session.file_size]

\* main.validate_session: the body of its response; listed tells whether
\* list_multipart_uploads answered.  Every exception ends in a body too.
validate_session(sid, listed) ==
    LET got == get_session(sid) IN
    IF got.exc # "" THEN [valid |-> FALSE, reason |-> got.exc, can_recover |-> TRUE]
    ELSE IF got.value = None
    THEN [valid |-> FALSE, reason |-> "Session not found", can_recover |-> FALSE]
    ELSE LET session == got.value IN
         IF session.expires_at < LocalNow
         THEN [valid |-> FALSE, reason |-> "Session expired", can_recover |-> FALSE]
         ELSE IF ~listed
         THEN [valid |-> FALSE, reason |-> "S3 validation failed", can_recover |-> TRUE]
         ELSE IF session.upload_id \notin s3_list_multipart_uploads(s3)
         THEN [valid |-> FALSE, reason |-> "S3 upload no longer exists",
               can_recover |-> FALSE]
         ELSE [valid |-> TRUE, status |-> session.status,
               missing_parts |-> missing_parts(session),
               uploaded_bytes |-> SumSizes(session.uploaded_parts),
               total_bytes |-> session.file_size]

\* POST /upload/validate
ValidateSession ==
    \E sid \in Sessions, listed \in BOOLEAN :
        /\ resp' = Reply("validate", sid, listed, 200, validate_session(sid, listed))
        /\ UNCHANGED <<redis, s3, utcNow, tz, pc, swept, inflight>>

\* UploadService.generate_presigned_url(self, session_id, part_number): the
\* body reads session.s3_key and session.upload_id, and no name session is
\* bound in the method or in the module, so the first read raises NameError
generate_presigned_url(session_id, part_number) ==
    LET scope == [session_id |-> session_id, part_number |-> part_number] IN
    IF "session" \notin DOMAIN scope THEN [exc |-> "NameError", url |-> None]
    ELSE [exc |-> "",
          url |-> [UploadId |-> scope.session.upload_id, PartNumber |-> part_number]]

\* main.get_presigned_url: its own 404 is raised inside the try block and,
\* like every exception of the service, leaves as HTTP 400
get_presigned_url(sid, part_number) ==
    LET got == get_session(sid) IN
    IF got.exc # "" THEN [code |-> 400, detail |-> got.exc, url |-> None]
    ELSE IF got.value = None
    THEN [code |-> 400, detail |-> "404: Session not found in Redis", url |-> None]
    ELSE LET made == generate_presigned_url(got.value, part_number) IN
         IF made.exc # "" THEN [code |-> 400, detail |-> made.exc, url |-> None]
         ELSE [code |-> 200, detail |-> "", url |-> made.url]

\* POST /upload/presigned-url
IssuePartUploadURL ==
    \E sid \in Sessions, part_number \in 1..MaxPart :
        /\ LET r == get_presigned_url(sid, part_number) IN
            resp' = Reply("presigned-url", sid, part_number, r.code, r)
        /\ UNCHANGED <<redis, s3, utcNow, tz, pc, swept, inflight>>

\* Variant: get_active_sessions that leaves out every terminal status
get_active_sessions_nonterminal ==
    LET keys == {sid \in Sessions : redis[sid] # NoKey} IN
    IF \E key \in keys : redis[key].kind # "json"
    THEN [exc |-> "JSONDecodeError", sessions |-> {}]
    ELSE [exc |-> "",
          sessions |-> {redis[key].doc :
                          key \in {k \in keys :
                                     redis[k].doc.status \notin
                                         {"completed", "cancelled", "failed"}}}]

\* UploadService.get_active_sessions: json.loads of every stored value, then
\* the status filter
get_active_sessions ==
    LET keys == {sid \in Sessions : redis[sid] # NoKey} IN
    IF \E key \in keys : redis[key].kind # "json"
    THEN [exc |-> "JSONDecodeError", sessions |-> {}]
    ELSE [exc |-> "",
          sessions |-> {redis[key].doc :
                          key \in {k \in keys :
                                     redis[k].doc.status \notin {"completed", "cancelled"}}}]

\* GET /upload/sessions/active
ListActiveSessions ==
    /\ LET out == get_active_sessions IN
        resp' = Reply("active", "", None, HttpCode(out), out)
    /\ UNCHANGED <<redis, s3, utcNow, tz, pc, swept, inflight>>

-----------------------------------------------------------------------------
(* mark_part_complete in two worker processes: the redis GET of get_session *)
(* and the redis SETEX of _store_session are separate commands, and another *)
(* process may run between them.                                            *)

\* mark_part_complete up to the return of get_session
PartCompleteRead(w) ==
    \E sid \in Sessions, part \in PartUploads :
        /\ inflight[w].loc = "idle"
        /\ LET got == get_session(sid) IN
            inflight' = [inflight EXCEPT ![w] =
                IF got.exc # "" \/ got.value = None
                THEN [loc |-> "done", sid |-> sid, part |-> part, session |-> None,
                      code |-> 400,
                      detail |-> IF got.exc # "" THEN got.exc ELSE "Session not found"]
                ELSE [loc |-> "read", sid |-> sid, part |-> part,
                      session |-> got.value]]
        /\ UNCHANGED <<redis, s3, utcNow, tz, pc, resp, swept>>

\* mark_part_complete from the append to the response
PartCompleteWrite(w) ==
    /\ inflight[w].loc = "read"
    /\ LET part == inflight[w].part
           part_data == [PartNumber |-> part.part_number, ETag |-> part.etag,
                         Size |-> part.size, UploadedAt |-> LocalNow]
           session == [inflight[w].session EXCEPT
                          !.uploaded_parts = Append(@, part_data)]
           st == store_session(redis, session)
       IN  /\ redis' = st.redis
           /\ inflight' = [inflight EXCEPT ![w] =
                  [loc |-> "done", sid |-> inflight[w].sid, part |-> part,
                   session |-> inflight[w].session,
                   found |-> redis[inflight[w].sid],
                   code |-> IF st.raised THEN 400 ELSE 200,
                   detail |-> IF st.raised THEN "AttributeError" ELSE ""]]
    /\ UNCHANGED <<s3, utcNow, tz, pc, resp, swept>>

-----------------------------------------------------------------------------
(* CleanupService *)

Never == 1000000                        \* a key stored without expiry

\* redis_client.ttl(key), in hours: -1 for a key without expiry
ttl(value) == IF value.exp = Never THEN 0 - 1 ELSE value.exp - utcNow

TerminalStatus == {"completed", "cancelled", "failed"}

\* The body of the loop over keys in cleanup_expired_sessions: whether the
\* pass deletes this stored value
should_cleanup(value) ==
    IF value.kind # "json"
    THEN \* json.loads raised: delete when the key has no expiry or under an hour left
         ttl(value) = 0 - 1 \/ ttl(value) < 1
    ELSE LET age_hours == utcNow - value.doc.created_at
             session_status == value.doc.status
         IN  IF age_hours > HardCeiling THEN TRUE
             ELSE IF age_hours > GraceWindow THEN session_status \in TerminalStatus
             ELSE FALSE

\* CleanupService.cleanup_expired_sessions: one whole pass; ping tells whether
\* redis answered
cleanup_expired_sessions(r, ping) ==
    IF ~ping THEN r
    ELSE [sid \in Sessions |->
            IF r[sid] # NoKey /\ should_cleanup(r[sid]) THEN NoKey ELSE r[sid]]

\* Variant: only the stale uploads that no stored session record refers to
stale_uploads_unreferenced(s) ==
    LET cutoff_date == LocalNow - OrphanCutoff IN
    {u \in s3_list_multipart_uploads(s) :
        /\ s[u].initiated < cutoff_date
        /\ \A sid \in Sessions : UploadOf(redis[sid]) # u}

\* The uploads cleanup_incomplete_uploads calls abort on, given the listing
stale_uploads(s) ==
    LET cutoff_date == LocalNow - OrphanCutoff IN
    {u \in s3_list_multipart_uploads(s) : s[u].initiated < cutoff_date}

\* Variant: cleanup_incomplete_uploads whose loop ends at the first abort
\* call that raises
cleanup_incomplete_uploads_stopping(s, listed, failing) ==
    IF ~listed THEN s
    ELSE [u \in UploadIds |->
            IF u \in stale_uploads(s)
               /\ \A v \in stale_uploads(s) \cap failing : u < v
            THEN s3_abort_multipart_upload(s, u, TRUE).s3[u]
            ELSE s[u]]

\* CleanupService.cleanup_incomplete_uploads: one whole pass; failing are the
\* uploads whose abort call raises
cleanup_incomplete_uploads(s, listed, failing) ==
    IF ~listed THEN s
    ELSE [u \in UploadIds |->
            IF u \in stale_uploads(s)
            THEN s3_abort_multipart_upload(s, u, u \notin failing).s3[u]
            ELSE s[u]]

\* start_cleanup_scheduler, first statement of the loop body
SweepSessions ==
    \E ping \in BOOLEAN :
        /\ pc.loc = "sessions"
        /\ redis' = cleanup_expired_sessions(redis, ping)
        /\ swept' = [pass |-> "sessions", ok |-> ping, now |-> utcNow,
                     before |-> redis, after |-> redis',
                     deleted |-> {sid \in Sessions : redis[sid] # redis'[sid]},
                     listing |-> {}, aborted |-> {}, failing |-> {}]
        /\ pc' = [pc EXCEPT !.loc = "uploads"]
        /\ UNCHANGED <<s3, utcNow, tz, resp, inflight>>

\* start_cleanup_scheduler, second statement of the loop body
SweepUploads ==
    \E listed \in BOOLEAN, failing \in SUBSET s3_list_multipart_uploads(s3) :
        /\ pc.loc = "uploads"
        /\ listed \/ failing = {}
        /\ s3' = cleanup_incomplete_uploads(s3, listed, failing)
        /\ swept' = [pass |-> "uploads", ok |-> listed, now |-> utcNow,
                     before |-> redis, after |-> redis, deleted |-> {},
                     listing |-> IF listed THEN
                                   {[id |-> u, initiated |-> s3[u].initiated] :
                                        u \in s3_list_multipart_uploads(s3)}
                                 ELSE {},
                     aborted |-> IF listed THEN stale_uploads(s3) ELSE {},
                     failing |-> failing]
        /\ pc' = [loc |-> "sleep", wake |-> utcNow + SweepInterval]
        /\ UNCHANGED <<redis, utcNow, tz, resp, inflight>>

\* asyncio.sleep(6 * 60 * 60) returns
Wake ==
    /\ pc.loc = "sleep"
    /\ utcNow >= pc.wake
    /\ pc' = [pc EXCEPT !.loc = "sessions"]
    /\ UNCHANGED <<redis, s3, utcNow, tz, resp, swept, inflight>>

\* Variant: the CancelledError is handled like any other exception and the
\* loop goes on
CancelSwallowed ==
    /\ pc.loc = "sleep"
    /\ pc' = [pc EXCEPT !.loc = "sessions"]
    /\ UNCHANGED <<redis, s3, utcNow, tz, resp, swept, inflight>>

\* lifespan shutdown: cleanup_task.cancel() while the task sleeps
Cancel ==
    /\ pc.loc = "sleep"
    /\ pc' = [pc EXCEPT !.loc = "cancelled"]
    /\ UNCHANGED <<redis, s3, utcNow, tz, resp, swept, inflight>>

\* asyncio.sleep returns after the clock of the model has reached its end:
\* time goes on but is no longer counted, so from here on ages are
\* under-estimated and the scheduler keeps cycling
WakeAtHorizon ==
    /\ pc.loc = "sleep"
    /\ utcNow < pc.wake
    /\ utcNow + SweepInterval > MaxNow
    /\ pc' = [pc EXCEPT !.loc = "sessions"]
    /\ UNCHANGED <<redis, s3, utcNow, tz, resp, swept, inflight>>

\* Time passes; redis drops the keys whose expiry has passed
Tick ==
    /\ utcNow + SweepInterval <= MaxNow
    /\ utcNow' = utcNow + SweepInterval
    /\ redis' = [sid \in Sessions |->
                    IF redis[sid] # NoKey /\ redis[sid].exp < utcNow'
                    THEN NoKey ELSE redis[sid]]
    /\ UNCHANGED <<s3, tz, pc, resp, swept, inflight>>

-----------------------------------------------------------------------------
(* Initial states.  The session store and the blob store are external and *)
(* persistent: the process starts against whatever they already hold.     *)

\* A stored session record, as UploadSession serialises
SessionDoc(sid, u, status, parts, created) ==
    [id |-> sid, upload_id |-> u, file_size |-> 5, chunk_size |-> 2,
     status |-> status, uploaded_parts |-> parts,
     created_at |-> created,
     completed_at |-> IF status = "completed" THEN created ELSE NoTime,
     expires_at |-> created + SessionTTL]

Json(doc, exp) == [kind |-> "json", doc |-> doc, exp |-> exp]
Corrupt(exp) == [kind |-> "corrupt", exp |-> exp]

Part(n, size) == [PartNumber |-> n, ETag |-> "a", Size |-> size, UploadedAt |-> 0]

\* The upload a stored record points at, as the blob store holds it
UploadFor(value, initiated) ==
    IF value = NoKey \/ value.kind # "json" THEN [state |-> "open", initiated |-> initiated]
    ELSE [state |-> CASE value.doc.status = "completed" -> "completed"
                      [] value.doc.status = "cancelled" -> "aborted"
                      [] OTHER -> "open",
          initiated |-> initiated]

NoUpload == [state |-> "none", initiated |-> 0]

InitResp ==
    [op |-> "none", sid |-> "s1", arg |-> None, code |-> 0, detail |-> "",
     obj |-> None, s3call |-> "none", s3ok |-> TRUE, before |-> NoKey, after |-> NoKey,
     remote |-> [before |-> "none", after |-> "none"]]

InitSwept ==
    [pass |-> "none", ok |-> FALSE, now |-> 0, before |-> [sid \in Sessions |-> NoKey],
     after |-> [sid \in Sessions |-> NoKey],
     deleted |-> {}, listing |-> {}, aborted |-> {}, failing |-> {}]

InitPc == [loc |-> "sessions", wake |-> 0]

\* No request is between its read and its write
InitInflight == [w \in Workers |-> [loc |-> "idle"]]

\* Requests: sessions of every status, with and without a recorded part
CoordSeeds1 ==
    {NoKey, Corrupt(SessionTTL)}
    \cup {Json(SessionDoc("s1", 1, st, ps, 0), SessionTTL) :
            st \in UploadStatus, ps \in {<<>>, <<Part(1, 2)>>}}
    \cup {Json(SessionDoc("s1", 1, "uploading", <<Part(1, 2), Part(2, 2)>>, 0),
                SessionTTL)}

CoordSeeds2 ==
    {NoKey}
    \cup {Json(SessionDoc("s2", 2, st, <<>>, 0), SessionTTL) :
            st \in {"uploading", "completed"}}

CoordInit ==
    /\ utcNow = 0
    /\ tz \in TzOffsets
    /\ \E v1 \in CoordSeeds1, v2 \in CoordSeeds2 :
        /\ redis = [sid \in Sessions |-> IF sid = "s1" THEN v1 ELSE v2]
        /\ s3 = [u \in UploadIds |->
                    IF u = 1 THEN UploadFor(v1, 0)
                    ELSE IF u = 2 /\ v2 # NoKey THEN UploadFor(v2, 0)
                    ELSE NoUpload]
    /\ pc = InitPc
    /\ resp = InitResp
    /\ swept = InitSwept
    /\ inflight = InitInflight

CoordNext ==
    \/ CreateSession
    \/ RecordPartComplete
    \/ CompleteUpload
    \/ AbortUpload
    \/ PauseUpload
    \/ ResumeUpload

CoordSpec == CoordInit /\ [][CoordNext]_vars

\* Reading endpoints: sessions of every status, before, at and past their
\* expires_at, with parts recorded once, twice and out of order
QuerySeeds1 ==
    {NoKey, Corrupt(SessionTTL)}
    \cup {Json(SessionDoc("s1", 1, st, ps, 0 - age), SessionTTL) :
            st \in UploadStatus,
            ps \in {<<>>, <<Part(1, 2)>>, <<Part(1, 2), Part(2, 2)>>,
                    <<Part(1, 2), Part(1, 2)>>, <<Part(3, 1), Part(1, 2)>>},
            age \in {0, SessionTTL, SessionTTL + 1}}

QuerySeeds2 ==
    {NoKey}
    \cup {Json(SessionDoc("s2", 2, st, <<>>, 0), SessionTTL) :
            st \in {"failed", "completed"}}

QueryInit ==
    /\ utcNow = 0
    /\ tz \in TzOffsets
    /\ \E v1 \in QuerySeeds1, v2 \in QuerySeeds2, gone \in BOOLEAN :
        /\ redis = [sid \in Sessions |-> IF sid = "s1" THEN v1 ELSE v2]
        /\ s3 = [u \in UploadIds |->
                    IF u = 1
                    THEN IF gone THEN [state |-> "aborted", initiated |-> 0]
                         ELSE UploadFor(v1, 0)
                    ELSE IF u = 2 /\ v2 # NoKey THEN UploadFor(v2, 0)
                    ELSE NoUpload]
    /\ pc = InitPc
    /\ resp = InitResp
    /\ swept = InitSwept
    /\ inflight = InitInflight

QueryNext ==
    \/ ValidateSession
    \/ IssuePartUploadURL
    \/ ListActiveSessions

QuerySpec == QueryInit /\ [][QueryNext]_vars

\* Uploads left behind: with a record of any non-terminal status or without
\* one, initiated about 7 days ago; new ones are created on the way
ReclaimSeeds1 ==
    {NoKey}
    \cup {Json(SessionDoc("s1", 1, st, <<>>, 0 - HardCeiling), SessionTTL) :
            st \in {"pending", "uploading", "paused"}}

ReclaimInit ==
    /\ utcNow = 0
    /\ tz \in TzOffsets
    /\ \E v1 \in ReclaimSeeds1,
          i1 \in {OrphanCutoff - 1, OrphanCutoff, OrphanCutoff + 1} :
        /\ redis = [sid \in Sessions |-> IF sid = "s1" THEN v1 ELSE NoKey]
        /\ s3 = [u \in UploadIds |->
                    IF u = 1 THEN UploadFor(v1, 0 - i1) ELSE NoUpload]
    /\ pc = InitPc
    /\ resp = InitResp
    /\ swept = InitSwept
    /\ inflight = InitInflight

ReclaimNext ==
    \/ CreateSession
    \/ SweepSessions
    \/ SweepUploads
    \/ Wake
    \/ WakeAtHorizon
    \/ Cancel
    \/ Tick

\* The scheduler task is run whenever it can take a step, its sleeps return,
\* time passes, and the blob store answers a whole orphan pass again and again
FairReclaimSpec ==
    /\ ReclaimInit /\ [][ReclaimNext]_vars
    /\ WF_vars(SweepSessions \/ Wake \/ WakeAtHorizon \/ Tick)
    /\ SF_vars(SweepUploads /\ swept'.ok /\ swept'.failing = {})

\* A part-complete request in one process beside the session pass of the
\* sweeper of another: records the pass deletes and records it keeps
DeleteRaceSeeds1 ==
    {Json(SessionDoc("s1", 1, st, ps, 0 - age), SessionTTL) :
        st \in {"uploading", "completed"},
        ps \in {<<>>, <<Part(1, 2)>>},
        age \in {GraceWindow + 1, HardCeiling + 1}}

DeleteRaceInit ==
    /\ utcNow = 0
    /\ tz \in TzOffsets
    /\ \E v1 \in DeleteRaceSeeds1 :
        /\ redis = [sid \in Sessions |-> IF sid = "s1" THEN v1 ELSE NoKey]
        /\ s3 = [u \in UploadIds |->
                    IF u = 1 THEN UploadFor(v1, v1.doc.created_at) ELSE NoUpload]
    /\ pc = InitPc
    /\ resp = InitResp
    /\ swept = InitSwept
    /\ inflight = InitInflight

DeleteRaceNext ==
    \/ PartCompleteRead("w1")
    \/ PartCompleteWrite("w1")
    \/ SweepSessions
    \/ CreateSession

DeleteRaceSpec == DeleteRaceInit /\ [][DeleteRaceNext]_vars

\* Two worker processes, one part-complete request each
RaceSeeds1 ==
    {Json(SessionDoc("s1", 1, "uploading", ps, 0), SessionTTL) :
        ps \in {<<>>, <<Part(1, 2)>>}}

RaceSeeds2 == {NoKey, Json(SessionDoc("s2", 2, "paused", <<>>, 0), SessionTTL)}

RaceInit ==
    /\ utcNow = 0
    /\ tz \in TzOffsets
    /\ \E v1 \in RaceSeeds1, v2 \in RaceSeeds2 :
        /\ redis = [sid \in Sessions |-> IF sid = "s1" THEN v1 ELSE v2]
        /\ s3 = [u \in UploadIds |->
                    IF u = 1 THEN UploadFor(v1, 0)
                    ELSE IF u = 2 /\ v2 # NoKey THEN UploadFor(v2, 0)
                    ELSE NoUpload]
    /\ pc = InitPc
    /\ resp = InitResp
    /\ swept = InitSwept
    /\ inflight = InitInflight

RaceNext ==
    \/ \E w \in Workers : PartCompleteRead(w)
    \/ \E w \in Workers : PartCompleteWrite(w)

RaceSpec == RaceInit /\ [][RaceNext]_vars

\* The sweeper: records of every status around the 2-day and 7-day marks,
\* unparseable values, uploads around the 7-day mark
SweepSeeds1 ==
    {NoKey, Corrupt(Never), Corrupt(0), Corrupt(SessionTTL)}
    \cup {Json(SessionDoc("s1", 1, st, <<>>, 0 - age), SessionTTL) :
            st \in UploadStatus,
            age \in {GraceWindow, GraceWindow + 1, HardCeiling - 1, HardCeiling,
                     HardCeiling + 1}}

SweepSeeds2 ==
    {NoKey}
    \cup {Json(SessionDoc("s2", 2, st, <<>>, 0 - 72), SessionTTL) :
            st \in {"paused", "completed"}}

SweepInit ==
    /\ utcNow = 0
    /\ tz \in TzOffsets
    /\ \E v1 \in SweepSeeds1, v2 \in SweepSeeds2,
          i1 \in {HardCeiling - 1, HardCeiling, HardCeiling + 1},
          i2 \in {72, OrphanCutoff + 72} :
        /\ redis = [sid \in Sessions |-> IF sid = "s1" THEN v1 ELSE v2]
        /\ s3 = [u \in UploadIds |->
                    IF u = 1 THEN UploadFor(v1, 0 - i1)
                    ELSE IF u = 2 THEN UploadFor(v2, 0 - i2)
                    ELSE NoUpload]
    /\ pc = InitPc
    /\ resp = InitResp
    /\ swept = InitSwept
    /\ inflight = InitInflight

SweepNext ==
    \/ SweepSessions
    \/ SweepUploads
    \/ Wake
    \/ Cancel
    \/ Tick

SweepSpec == SweepInit /\ [][SweepNext]_vars

\* The scheduler task is run whenever it can take a step, its sleep returns
\* once the time is up, and time passes
FairSweepSpec ==
    /\ SweepSpec
    /\ WF_vars(SweepSessions) /\ WF_vars(SweepUploads)
    /\ WF_vars(Wake) /\ WF_vars(Tick)

-----------------------------------------------------------------------------
(* Properties *)

IsSession(value) == value # NoKey /\ value.kind = "json"

\* The part list covers exactly 1..ceil(file_size / chunk_size), each number once
ExactCover(session, parts) ==
    /\ Len(parts) = total_parts(session)
    /\ PartNumbers(parts) = 1..total_parts(session)

DistinctParts(parts) ==
    \A i, j \in 1..Len(parts) : i # j => parts[i].PartNumber # parts[j].PartNumber

\* The texts of the state checks the handlers make
StateErrors == {"Session is not paused", "Cannot resume session"}

\* The request was refused by a state check, before anything was written
StateRejected(r) == r.code = 400 /\ r.detail \in StateErrors /\ r.obj = None

\* C1: CompleteUpload on an existing session finalizes the object and sets the
\* status to Completed exactly when the supplied part numbers are 1..N, each
\* once, N = ceil(fileSize / chunkSize); for every other list it fails, makes
\* no complete call on the blob store and leaves the record unchanged.
C1_CompleteIffExactCover ==
    (resp.op = "complete" /\ IsSession(resp.before)) =>
        IF ExactCover(resp.before.doc, resp.arg)
        THEN resp.s3ok =>
                /\ resp.code = 200
                /\ IsSession(resp.after)
                /\ resp.after.doc.status = "completed"
        ELSE /\ resp.code = 400
             /\ resp.s3call # "complete"
             /\ resp.after = resp.before

\* C2: PauseUpload on a session whose status is not Uploading is refused as an
\* invalid state transition and the stored record is unchanged.
C2_PauseOnlyFromUploading ==
    (resp.op = "pause" /\ IsSession(resp.before)
        /\ resp.before.doc.status # "uploading") =>
        /\ StateRejected(resp)
        /\ resp.after = resp.before

C4_PartNumbersUnique ==
    /\ \A sid \in Sessions :
          IsSession(redis[sid]) => DistinctParts(redis[sid].doc.uploaded_parts)
    /\ (resp.op = "part-complete" /\ IsSession(resp.before)) =>
          /\ resp.obj # None
          /\ DistinctParts(resp.obj.uploaded_parts)
          /\ Cardinality({i \in 1..Len(resp.obj.uploaded_parts) :
                 resp.obj.uploaded_parts[i].PartNumber = resp.arg.part_number}) = 1

\* C5: ResumeUpload from Paused or Failed succeeds and sets Uploading; from
\* Completed or Uploading it succeeds and changes nothing; from Cancelled it is
\* refused as an invalid state transition and changes nothing.
C5_ResumeTable ==
    (resp.op = "resume" /\ IsSession(resp.before)) =>
        LET st == resp.before.doc.status IN
        /\ st \in {"paused", "failed"} =>
              (resp.code = 200 /\ IsSession(resp.after)
                 /\ resp.after.doc.status = "uploading")
        /\ st \in {"completed", "uploading"} =>
              (resp.code = 200 /\ resp.after = resp.before)
        /\ st = "cancelled" =>
              (StateRejected(resp) /\ resp.after = resp.before)

C7_AbortAlwaysCancels ==
    (resp.op = "abort" /\ IsSession(resp.before)
        /\ resp.before.doc.status \notin TerminalStatus) =>
        /\ resp.code = 200
        /\ IsSession(resp.after)
        /\ resp.after.doc.status = "cancelled"

\* C8: AbortUpload for a session id with no stored record returns success,
\* makes no blob-store call and creates no record.
C8_AbortAbsentIsSuccess ==
    (resp.op = "abort" /\ resp.before = NoKey) =>
        /\ resp.code = 200
        /\ resp.s3call = "none"
        /\ resp.after = NoKey

\* C9: after a session pass with the store reachable, a parseable record is
\* deleted exactly when its age exceeds 7 days, or exceeds 2 days with status
\* Completed, Cancelled or Failed; every other record is stored unmodified.
\* created_at is a naive local time, so the age is local now minus created_at.
C9_SessionPassDeletesExactly ==
    (swept.pass = "sessions" /\ swept.ok) =>
        \A sid \in Sessions :
            IsSession(swept.before[sid]) =>
                LET age == (swept.now + tz) - swept.before[sid].doc.created_at
                    due == \/ age > HardCeiling
                           \/ /\ age > GraceWindow
                              /\ swept.before[sid].doc.status \in TerminalStatus
                IN  IF due THEN swept.after[sid] = NoKey
                    ELSE swept.after[sid] = swept.before[sid]

\* C10: an orphan pass calls abort on exactly the listed uploads initiated more
\* than 7 days before the pass, with or without a session record.
C10_OrphanPassAbortsExactly ==
    (swept.pass = "uploads" /\ swept.ok) =>
        \A item \in swept.listing :
            item.id \in swept.aborted <=> (swept.now - item.initiated > OrphanCutoff)

\* Every part number 1..ceil(file_size / chunk_size) has a recorded part
AllPartsPresent(session) ==
    1..total_parts(session) \subseteq PartNumbers(session.uploaded_parts)

\* C11: once every expected part number is present, the recorded sizes sum to
\* at most fileSize, in the store and in the record RecordPartComplete builds;
\* a part larger than chunkSize is rejected and no record is built for it.
C11_SizesWithinFile ==
    /\ \A sid \in Sessions :
          (IsSession(redis[sid]) /\ AllPartsPresent(redis[sid].doc)) =>
              SumSizes(redis[sid].doc.uploaded_parts) <= redis[sid].doc.file_size
    /\ (resp.op = "part-complete" /\ IsSession(resp.before)) =>
          /\ resp.arg.size > resp.before.doc.chunk_size =>
                (resp.code = 400 /\ resp.obj = None /\ resp.after = resp.before)
          /\ (resp.obj # None /\ AllPartsPresent(resp.obj)) =>
                SumSizes(resp.obj.uploaded_parts) <= resp.obj.file_size

\* The session record the endpoint answered about, when one was stored
Asked == resp.before[resp.sid]

\* C12: ValidateSession on a stored session whose expires_at is earlier than
\* the current time answers valid = false, reason "Session expired", whatever
\* the status, the recorded parts and the state or reachability of the blob
\* store.
C12_ExpiredIsInvalid ==
    (resp.op = "validate" /\ IsSession(Asked)
        /\ Asked.doc.expires_at < LocalNow) =>
        /\ resp.code = 200
        /\ resp.body.valid = FALSE
        /\ resp.body.reason = "Session expired"

\* C12, its case: an expired Uploading session with two parts recorded whose
\* remote upload is gone, or whose blob store does not answer
C12_Witness ==
    /\ resp.op = "validate" /\ IsSession(Asked)
    /\ Asked.doc.expires_at < LocalNow
    /\ Asked.doc.status = "uploading"
    /\ Len(Asked.doc.uploaded_parts) = 2
    /\ (~resp.arg \/ resp.remote[Asked.doc.upload_id].state # "open")
    /\ resp.body.reason = "Session expired"

\* Total size of the distinct recorded parts: each part number counts once,
\* with the size of its latest record
DistinctBytes(parts) ==
    LET latest(i) == \A j \in (i + 1)..Len(parts) :
                        parts[j].PartNumber # parts[i].PartNumber
        acc[i \in 0..Len(parts)] ==
            IF i = 0 THEN 0
            ELSE acc[i - 1] + (IF latest(i) THEN parts[i].Size ELSE 0)
    IN  acc[Len(parts)]

\* C13: for a stored, unexpired session whose remote upload the blob store
\* lists, ValidateSession answers valid = true, missing_parts = the numbers of
\* 1..ceil(fileSize / chunkSize) without a recorded part, in ascending order,
\* and uploaded_bytes = the total size of the distinct recorded parts.
C13_ValidateReportsProgress ==
    (resp.op = "validate" /\ IsSession(Asked)
        /\ Asked.doc.expires_at >= LocalNow
        /\ resp.arg
        /\ resp.remote[Asked.doc.upload_id].state = "open") =>
        /\ resp.body.valid
        /\ LET m == resp.body.missing_parts IN
            /\ {m[i] : i \in 1..Len(m)} =
                  (1..total_parts(Asked.doc)) \ PartNumbers(Asked.doc.uploaded_parts)
            /\ \A i, j \in 1..Len(m) : i < j => m[i] < m[j]
        /\ resp.body.uploaded_bytes = DistinctBytes(Asked.doc.uploaded_parts)

\* C14: IssuePartUploadURL answers a URL for the session's remote upload and
\* the part asked for when the session is stored, not past expires_at and not
\* Completed, Cancelled or Failed; it answers 404 when no record is stored,
\* and an error without URL when the session is expired or terminal.
C14_UrlForLiveSessions ==
    resp.op = "presigned-url" =>
        /\ Asked = NoKey => (resp.code = 404 /\ resp.body.url = None)
        /\ IsSession(Asked) =>
              IF Asked.doc.expires_at < LocalNow \/ Asked.doc.status \in TerminalStatus
              THEN resp.code # 200 /\ resp.body.url = None
              ELSE /\ resp.code = 200
                   /\ resp.body.url = [UploadId |-> Asked.doc.upload_id,
                                       PartNumber |-> resp.arg]

\* Every stored value parses as a session record
AllParse(r) == \A sid \in Sessions : r[sid] = NoKey \/ IsSession(r[sid])

Interleaved ==
    /\ \A w \in Workers : inflight[w].loc = "done" /\ inflight[w].session # None
    /\ inflight["w1"].sid = inflight["w2"].sid
    /\ inflight["w1"].part.part_number # inflight["w2"].part.part_number
    /\ inflight["w1"].session = inflight["w2"].session

\* Both requests reported success and the stored record holds the part of
\* only one of them
LostUpdate ==
    /\ Interleaved
    /\ \A w \in Workers : inflight[w].code = 200
    /\ LET stored == redis[inflight["w1"].sid] IN
        /\ IsSession(stored)
        /\ Cardinality({w \in Workers :
               inflight[w].part.part_number \in
                   PartNumbers(stored.doc.uploaded_parts)
                     \ PartNumbers(inflight[w].session.uploaded_parts)}) = 1

\* C16: two RecordPartComplete requests for different part numbers of one
\* session that both read the record before either writes both report
\* success, and the stored record ends up with only one of the two parts.
C16_InterleavingLosesUpdate == Interleaved => LostUpdate

\* No run reaches a lost update
NoLostUpdate == ~LostUpdate

\* C17: a cancellation that reaches the scheduler task in its sleep between
\* cycles ends the task; once ended it starts no pass and aborts no upload,
\* so the shutdown that awaits it completes.
C17_CancelEndsScheduler ==
    [][/\ Cancel => pc'.loc = "cancelled"
       /\ pc.loc = "cancelled" => (pc' = pc /\ swept' = swept /\ s3' = s3)]_vars

\* C17, its case: the task was cancelled in the sleep after a whole cycle,
\* and the time it would have woken at has passed without another pass
C17_Witness ==
    /\ pc.loc = "cancelled"
    /\ swept.pass = "uploads"
    /\ pc.wake = swept.now + SweepInterval
    /\ utcNow >= pc.wake

\* C18, safety: a session pass whose store does not answer is followed by
\* the orphan pass; a pass that does run treats every item by its own rule,
\* whatever failed on the others (a stored value that does not parse, an
\* abort call that raises); after the orphan pass the task sleeps until the
\* next cycle, and leaves that sleep only for a new cycle or by cancellation.
SweepGoesOn ==
    [][/\ (pc.loc = "sessions" /\ pc' # pc) =>
            /\ pc'.loc = "uploads"
            /\ swept'.ok =>
                  \A sid \in Sessions :
                      redis[sid] # NoKey =>
                          (redis'[sid] = NoKey <=> should_cleanup(redis[sid]))
       /\ (pc.loc = "uploads" /\ pc' # pc) =>
            /\ pc' = [loc |-> "sleep", wake |-> utcNow + SweepInterval]
            /\ swept'.ok =>
                  \A u \in stale_uploads(s3) \ swept'.failing :
                      s3'[u].state = "aborted"
       /\ (pc.loc = "sleep" /\ pc' # pc) => pc'.loc \in {"sessions", "cancelled"}]_vars

\* The last pass met a failure: the store or the listing did not answer, a
\* stored value did not parse, or an abort call raised
PassFailed ==
    /\ swept.pass # "none"
    /\ \/ ~swept.ok
       \/ swept.failing # {}
       \/ \E sid \in Sessions :
             swept.before[sid] # NoKey /\ ~IsSession(swept.before[sid])

\* The hours at which a cycle can start and be followed by another one
CycleTimes ==
    {t \in 0..MaxNow : t % SweepInterval = 0 /\ t + SweepInterval <= MaxNow}

\* C18, liveness: after a pass that met a failure, the task runs a pass of a
\* later cycle unless it is cancelled (as far as the clock of the model goes).
LaterCycleRuns ==
    \A t \in CycleTimes :
        (PassFailed /\ swept.now = t) ~> (pc.loc = "cancelled" \/ swept.now > t)

\* C18: sweeper failures are never fatal and never cut a sweep short.
C18_SweepFailuresContained == SweepGoesOn /\ LaterCycleRuns

\* C18, its case: the first of two stale uploads could not be aborted, the
\* second was aborted in the same pass, and the task went on to its sleep
C18_Witness ==
    /\ swept.pass = "uploads" /\ swept.ok
    /\ swept.aborted = {1, 2}
    /\ swept.failing = {1}
    /\ s3[1].state = "open" /\ s3[2].state = "aborted"
    /\ pc.loc = "sleep"

\* C19: every operation that writes a session record leaves it stored with
\* the expiry expires_at, the TTL that remains since creation, so the record
\* does not outlive created_at + 7 days (expires_at is a local time, the
\* expiry of the key a UTC one).
C19_ExpiryIsRemainingTTL ==
    (resp.op # "none" /\ resp.obj # None) =>
        /\ IsSession(resp.after)
        /\ resp.after.doc = resp.obj
        /\ resp.after.exp = resp.obj.expires_at - tz
        /\ resp.after.exp <= (resp.obj.created_at - tz) + SessionTTL

\* C20: when the blob store creates the multipart upload, CreateSession
\* succeeds and the record is stored under the new id, Pending, without parts
\* and with the upload id the blob store returned, where a following get
\* finds it; when the blob store fails, CreateSession fails and stores nothing.
C20_CreateStoresPending ==
    resp.op = "create" =>
        IF resp.s3ok
        THEN /\ resp.code = 200
             /\ IsSession(resp.after)
             /\ resp.after.doc = resp.obj
             /\ resp.after.doc.status = "pending"
             /\ resp.after.doc.uploaded_parts = <<>>
             /\ resp.remote.before = "none"
             /\ RemoteState(s3, resp.after.doc.upload_id) = "open"
             /\ get_session(resp.sid).value = resp.obj
        ELSE /\ resp.code = 400
             /\ resp.after = NoKey
             /\ redis[resp.sid] = NoKey

\* C21: RecordPartComplete on a Pending session builds and stores a record
\* whose status is Uploading, so a following PauseUpload is allowed; no record
\* it builds holds a recorded part with status Pending.
C21_FirstPartLeavesPending ==
    (resp.op = "part-complete" /\ IsSession(resp.before)) =>
        /\ resp.obj # None
        /\ Len(resp.obj.uploaded_parts) >= 1
        /\ resp.obj.status # "pending"
        /\ resp.before.doc.status = "pending" =>
              /\ resp.obj.status = "uploading"
              /\ resp.code = 200
              /\ IsSession(resp.after)
              /\ resp.after.doc.status = "uploading"

\* The upload is older than 7 days, by the sweeper's own comparison, at the
\* last hour the model's clock reaches (within SweepInterval of MaxNow)
DueByHorizon(u) == s3[u].initiated < (MaxNow + tz) - OrphanCutoff - SweepInterval

\* The uploads in progress that are due.  An upload leaves this set only by
\* being closed: its initiation time and the offset tz never change
Leaked == {u \in UploadIds : s3[u].state = "open" /\ DueByHorizon(u)}

\* C22: no remote multipart upload is leaked.  With the sweeper scheduled
\* fairly and the blob store answering again and again, an upload in progress
\* that is older than 7 days is eventually closed (completed or aborted)
\* unless the sweeper task is cancelled, with or without a stored session
\* record: whenever such uploads exist, a time comes when none is left.
C22_NoUploadLeaked ==
    (Leaked # {}) ~> (Leaked = {} \/ pc.loc = "cancelled")

\* C22, its case: an upload that no session record refers to was aborted by
\* the orphan pass, while an upload CreateSession just made stays in progress
C22_Witness ==
    /\ swept.pass = "uploads" /\ 1 \in swept.aborted
    /\ swept.before["s1"] = NoKey
    /\ s3[1].state = "aborted"
    /\ s3[2].state = "open" /\ s3[2].initiated >= 0

\* C23: a stored session with status Completed has completed_at set and its
\* remote upload is completed; a record is given the status Completed only by
\* CompleteUpload, after the blob store's complete call succeeded, and
\* together with completed_at.
C23_CompletedMeansFinalized ==
    /\ \A sid \in Sessions :
          (IsSession(redis[sid]) /\ redis[sid].doc.status = "completed") =>
              /\ redis[sid].doc.completed_at # NoTime
              /\ RemoteState(s3, redis[sid].doc.upload_id) = "completed"
    /\ (resp.op # "none" /\ resp.obj # None /\ resp.obj.status = "completed") =>
          /\ resp.obj.completed_at # NoTime
          /\ \/ /\ IsSession(resp.before)
                /\ resp.before.doc.status = "completed"
                /\ resp.remote.after = "completed"
             \/ /\ resp.op = "complete"
                /\ resp.s3call = "complete" /\ resp.s3ok
                /\ resp.remote.before = "open"
                /\ resp.remote.after = "completed"

\* C23, its case: CompleteUpload on an Uploading session, the blob store
\* completes the upload, and the record built is Completed with completed_at
C23_Witness ==
    /\ resp.op = "complete" /\ resp.s3call = "complete" /\ resp.s3ok
    /\ IsSession(resp.before) /\ resp.before.doc.status = "uploading"
    /\ resp.obj # None /\ resp.obj.status = "completed"
    /\ resp.obj.completed_at = LocalNow
    /\ resp.remote.before = "open" /\ resp.remote.after = "completed"

\* The record and the upload it refers to were made by one create_session:
\* created_at is the local time of the upload's Initiated
MadeTogether(doc) ==
    /\ doc.upload_id \in UploadIds
    /\ s3[doc.upload_id].initiated = doc.created_at - tz

\* C24: after an orphan pass no stored session with status Pending, Uploading
\* or Paused refers to an upload that the pass aborted, also when the session
\* pass of the cycle was skipped.
C24_LiveSessionKeepsUpload ==
    swept.pass = "uploads" =>
        \A sid \in Sessions :
            (/\ IsSession(redis[sid])
             /\ redis[sid].doc.status \in {"pending", "uploading", "paused"}
             /\ MadeTogether(redis[sid].doc)) =>
                ~ (/\ redis[sid].doc.upload_id \in swept.aborted
                   /\ s3[redis[sid].doc.upload_id].state = "aborted")

====
